---- MODULE Spec2Model ----
(***************************************************************************)
(* State-machine model of the obsirag backend: the indexing worker and its *)
(* shared progress dictionary (routes.py, rag_engine.py), the query route, *)
(* the extraction dispatcher (document_parser.py) and the graph export.    *)
(*                                                                         *)
(* Strings that the code inspects character by character (paths, document  *)
(* texts, context blobs) are sequences of one-character strings.           *)
(*                                                                         *)
(* The handlers are coroutines on one event loop: a step of the model is   *)
(* the code a coroutine runs between two suspension points (await of       *)
(* asyncio.to_thread, of rag.ainsert, of rag.aquery, or the hand-over from *)
(* the response to its background task).  Every reachable state is         *)
(* therefore a state another handler, e.g. GET /index/status, can observe. *)
(***************************************************************************)
EXTENDS Integers, Sequences, FiniteSets, TLC

VARIABLES
    engine_ready,     \* main.engine is not None and main.engine.rag is not None
    indexing_status,  \* rag_engine.indexing_status, the shared dict
    requests,         \* POST /index requests in arrival order, each with its worker
    queries,          \* POST /query requests in arrival order
    graph_file,       \* the persisted graph file, as parsed: [exists, nodes, edges]
    graph_resp,       \* the last GET /graph request and its response
    unit              \* one function of the code called on its own: [fn, stage, arg, out]

vars == <<engine_ready, indexing_status, requests, queries, graph_file, graph_resp, unit>>

-----------------------------------------------------------------------------
(* Bounds of the model *)

\* the load the clients put on the service in one run: an index request
\* counts one plus one for each of its paths, a query counts two
MaxLoad == 5

\* the graph file: at most MaxNodes nodes, at most MaxEdges edges; the
\* limits asked for run from -2 to MaxLimit, and the default
MaxNodes == 3
MaxEdges == 2
MaxLimit == 3

\* segments of a context blob
MaxSegs == 4

-----------------------------------------------------------------------------
(* Characters and strings *)

UpperAlphabet == <<"A","B","C","D","E","F","G","H","I","J","K","L","M",
                   "N","O","P","Q","R","S","T","U","V","W","X","Y","Z">>

LowerAlphabet == <<"a","b","c","d","e","f","g","h","i","j","k","l","m",
                   "n","o","p","q","r","s","t","u","v","w","x","y","z">>

LowerChar(c) ==
    IF \E k \in 1..26 : UpperAlphabet[k] = c
    THEN LowerAlphabet[CHOOSE k \in 1..26 : UpperAlphabet[k] = c]
    ELSE c

Lower(s) == [k \in 1..Len(s) |-> LowerChar(s[k])]

Whitespace == {" ", "\n", "\t", "\r"}

\* str.strip() is non-empty
HasNonBlank(s) == \E k \in 1..Len(s) : s[k] \notin Whitespace

\* the largest index of character c in s, 0 when there is none (str.rfind + 1)
RFind(s, c) ==
    IF \E k \in 1..Len(s) : s[k] = c
    THEN CHOOSE k \in 1..Len(s) : s[k] = c /\ \A j \in (k+1)..Len(s) : s[j] # c
    ELSE 0

\* os.path.splitext(path)[1]: the text from the last dot of the last
\* component on, unless only dots precede it in that component
SplitExt(path) ==
    LET sep == RFind(path, "/")
        dot == RFind(path, ".")
    IN  IF dot > sep /\ \E k \in (sep+1)..(dot-1) : path[k] # "."
        THEN SubSeq(path, dot, Len(path))
        ELSE <<>>

RECURSIVE SplitAcc(_, _, _)
SplitAcc(s, cur, acc) ==
    IF s = <<>> THEN (IF cur = <<>> THEN acc ELSE Append(acc, cur))
    ELSE IF Head(s) = "/"
         THEN SplitAcc(Tail(s), <<>>, IF cur = <<>> THEN acc ELSE Append(acc, cur))
         ELSE SplitAcc(Tail(s), Append(cur, Head(s)), acc)

\* the non-empty components of an absolute, normalised POSIX path
Components(p) == SplitAcc(p, <<>>, <<>>)

RECURSIVE Join(_)
Join(comps) ==
    IF comps = <<>> THEN <<>>
    ELSE IF Len(comps) = 1 THEN comps[1]
    ELSE comps[1] \o <<"/">> \o Join(Tail(comps))

\* length of the longest common prefix of two component lists
CommonLen(a, b) ==
    CHOOSE n \in 0..Len(a) :
        /\ n <= Len(b)
        /\ \A k \in 1..n : a[k] = b[k]
        /\ (n < Len(a) /\ n < Len(b)) => a[n+1] # b[n+1]

\* os.path.relpath(path, start) for absolute paths without "." or ".."
RelPath(path, start) ==
    LET sl == Components(start)
        pl == Components(path)
        n  == CommonLen(sl, pl)
        rel == [k \in 1..(Len(sl) - n) |-> <<".", ".">>] \o SubSeq(pl, n+1, Len(pl))
    IN  IF rel = <<>> THEN <<".">> ELSE Join(rel)

-----------------------------------------------------------------------------
(* document_parser.py *)

PARSERS == { <<".","m","d">>, <<".","t","x","t">>, <<".","p","d","f">>,
             <<".","d","o","c","x">>, <<".","d","o","c">>,
             <<".","x","l","s","x">>, <<".","x","l","s">>,
             <<".","p","n","g">>, <<".","j","p","g">>, <<".","j","p","e","g">>,
             <<".","t","i","f","f">>, <<".","t","i","f">>, <<".","b","m","p">>,
             <<".","w","e","b","p">> }

\* What the selected parser does with the file: it raises, or returns a text.
ParserTexts == { <<>>, <<" ", "\n">>, <<"H","i">> }

ParserResults ==
    {[kind |-> "raise", text |-> <<>>]} \cup
    {[kind |-> "text", text |-> t] : t \in ParserTexts}

\* parse_document, lines 89-90: ext is computed once, then looked up
Supported(path) == \E ext \in {SplitExt(path)} : Lower(ext) \in PARSERS

\* mutant: an unsupported extension raises instead of returning None
parse_document_UnsupportedRaises(path, pr) ==
    IF ~Supported(path) THEN [kind |-> "raise", text |-> <<>>]
    ELSE IF pr.kind = "raise" THEN [kind |-> "raise", text |-> <<>>]
    ELSE IF pr.text # <<>> /\ HasNonBlank(pr.text)
         THEN [kind |-> "text", text |-> pr.text]
         ELSE [kind |-> "none", text |-> <<>>]

\* parse_document(path), given what the parser (if one is called) does:
\*   [kind |-> "none"]   None is returned
\*   [kind |-> "text"]   the text is returned
\*   [kind |-> "raise"]  RuntimeError("Failed to parse ...") is raised
parse_document(path, pr) ==
    IF ~Supported(path) THEN [kind |-> "none", text |-> <<>>]
    ELSE IF pr.kind = "raise" THEN [kind |-> "raise", text |-> <<>>]
    ELSE IF pr.text # <<>> /\ HasNonBlank(pr.text)
         THEN [kind |-> "text", text |-> pr.text]
         ELSE [kind |-> "none", text |-> <<>>]

-----------------------------------------------------------------------------
(* rag_engine.py: the source marker *)

SOURCE_PREFIX == <<"[","S","O","U","R","C","E","_","F","I","L","E",":"," ">>
SOURCE_SUFFIX == <<"]">>

\* insert_document: the text handed to rag.ainsert
Marked(text, file_path) ==
    SOURCE_PREFIX \o file_path \o SOURCE_SUFFIX \o <<"\n", "\n">> \o text

\* does s carry t at index k
At(s, k, t) == k + Len(t) - 1 <= Len(s) /\ SubSeq(s, k, k + Len(t) - 1) = t

\* _SOURCE_PATTERN matched at index k: the index of the closing bracket, 0
\* when there is no match.  (.+?) takes at least one character, none of
\* them a newline, and as few as possible.
MatchEnd(s, k) ==
    LET g == k + Len(SOURCE_PREFIX)
        ends == {e \in (g+1)..Len(s) :
                    /\ s[e] = "]"
                    /\ \A j \in g..(e-1) : s[j] # "\n"}
    IN  IF At(s, k, SOURCE_PREFIX) /\ ends # {}
        THEN CHOOSE e \in ends : \A f \in ends : e <= f
        ELSE 0

\* _SOURCE_PATTERN.findall(s): the groups of the non-overlapping matches,
\* scanning from the left
RECURSIVE FindAllFrom(_, _)
FindAllFrom(s, k) ==
    IF k > Len(s) THEN <<>>
    ELSE LET e == MatchEnd(s, k)
         IN  IF e = 0 THEN FindAllFrom(s, k + 1)
             ELSE <<SubSeq(s, k + Len(SOURCE_PREFIX), e - 1)>> \o FindAllFrom(s, e + 1)

FindAll(s) == FindAllFrom(s, 1)

\* list(dict.fromkeys(xs)): first occurrences, in order
RECURSIVE DedupAcc(_, _)
DedupAcc(xs, acc) ==
    IF xs = <<>> THEN acc
    ELSE DedupAcc(Tail(xs),
                  IF \E k \in 1..Len(acc) : acc[k] = Head(xs)
                  THEN acc ELSE Append(acc, Head(xs)))

\* mutant: every occurrence is kept
ExtractSources_KeepAll(context) == FindAll(context)

ExtractSources(context) == DedupAcc(FindAll(context), <<>>)

\* query_with_sources, lines 104-113: the sources for a context that came back
SourcesOf(context) == IF context # <<>> THEN ExtractSources(context) ELSE <<>>

-----------------------------------------------------------------------------
(* Inputs *)

\* no function is called on its own
NoUnit == [fn |-> "none", stage |-> "none", arg |-> <<>>, out |-> <<>>]

\* os.path.exists(graphml_path) is false
NoGraphFile == [exists |-> FALSE, nodes |-> <<>>, edges |-> <<>>]

P_md  == <<"/","v","/","a",".","m","d">>
P_exe == <<"/","v","/","b",".","e","x","e">>

Paths == {P_md, P_exe}

\* the paths field of an IndexRequest: any list of n paths, n = 0 included
PathLists(n) == [1..n -> Paths]

\* the vault_path field of an IndexRequest
VaultPaths == { <<>>, <<"/","v">> }

\* QueryRequest.mode
Modes == {"hybrid", "naive"}

\* what rag.aquery returns for the primary call (it may also raise)
Answers == {"", "answer"}

\* what rag.aquery returns for the context-only call (it may also raise)
Contexts ==
    { <<>>,
      Marked(<<"H","i">>, <<"a",".","m","d">>) \o Marked(<<"x">>, <<"b",".","m","d">>)
          \o Marked(<<"y">>, <<"a",".","m","d">>) }

RECURSIVE IndexLoad(_)
IndexLoad(reqs) ==
    IF reqs = <<>> THEN 0
    ELSE 1 + Len(Head(reqs).paths) + IndexLoad(Tail(reqs))

\* the load put on the service so far
Load(reqs, qs) == IndexLoad(reqs) + 2 * Len(qs)

NoExc == "none"
ParseError == "Failed to parse"
EngineError == "Engine error"

-----------------------------------------------------------------------------
(* routes.py: POST /index and its background worker *)

\* mutant: the empty list is not refused
IndexRejected_NoCheck(paths) == FALSE

\* index_documents, line 49: the request is refused
IndexRejected(paths) == paths = <<>>

\* _index_worker, lines 58-61
Reset(st, paths) ==
    [st EXCEPT !.running = TRUE, !.total = Len(paths), !.indexed = 0, !.errors = <<>>]

\* mutant: a parse failure leaves the loop
Caught_NotParseError(exc) == exc # "Failed to parse"

\* _index_worker, lines 71-72: the except clause takes every Exception
Caught(exc) == TRUE

\* _index_worker, line 72
Except(st, path, exc) ==
    [st EXCEPT !.errors = Append(@, [file |-> path, error |-> exc])]

\* mutant: the finally clause does not count the path
Finally_NoCount(st) == st

\* _index_worker, lines 73-74
Finally(st) == [st EXCEPT !.indexed = @ + 1]

\* mutant: the path is handed on as given
RelPathOf_AsGiven(path, vault_path) == path

\* _index_worker, line 69
RelPathOf(path, vault_path) ==
    IF vault_path # <<>> THEN RelPath(path, vault_path) ELSE path

\* _index_worker, lines 63-66 and 76-77: the head of the loop.  With a path
\* left, current_file is set and parse_document is handed to a thread;
\* without, the status is set idle and the worker returns.
NextIteration(st, wr) ==
    IF wr.i < Len(wr.paths)
    THEN [status |-> [st EXCEPT !.current_file = wr.paths[wr.i + 1]],
          worker |-> [wr EXCEPT !.i = @ + 1, !.pc = "parsing",
                                !.parsed = Append(@, wr.paths[wr.i + 1])]]
    ELSE [status |-> [st EXCEPT !.running = FALSE, !.current_file = <<>>],
          worker |-> [wr EXCEPT !.pc = "done"]]

\* mutant: without the except clause an exception ends the worker
EndIteration_NoExcept(st, wr, exc) ==
    IF exc = NoExc THEN NextIteration(Finally(st), wr)
    ELSE [status |-> Finally(st),
          worker |-> [wr EXCEPT !.raised = @ + 1, !.pc = "aborted"]]

\* _index_worker, lines 71-74: the end of one iteration, exc the exception
\* raised in the try block (NoExc when none was)
EndIteration(st, wr, exc) ==
    IF exc = NoExc THEN NextIteration(Finally(st), wr)
    ELSE IF Caught(exc)
         THEN NextIteration(Finally(Except(st, wr.paths[wr.i], exc)),
                            [wr EXCEPT !.raised = @ + 1])
         ELSE [status |-> Finally(st),
               worker |-> [wr EXCEPT !.raised = @ + 1, !.pc = "aborted"]]

\* main.py lifespan: the engine is built and initialised, then the server
\* starts to accept requests
Lifespan ==
    /\ ~engine_ready
    /\ engine_ready' = TRUE
    /\ UNCHANGED <<indexing_status, requests, queries, graph_file, graph_resp, unit>>

\* index_documents: 400 for an empty list, else the worker is added as the
\* response's background task
IndexDocuments(paths, vault_path) ==
    /\ engine_ready
    /\ Load(requests, queries) + 1 + Len(paths) <= MaxLoad
    /\ requests' = Append(requests,
           [paths |-> paths, vault_path |-> vault_path,
            resp |-> IF IndexRejected(paths) THEN 400 ELSE 200,
            pc |-> IF IndexRejected(paths) THEN "rejected" ELSE "scheduled",
            i |-> 0, parsed |-> <<>>, doc |-> <<>>, raised |-> 0,
            ingested |-> {}])
    /\ UNCHANGED <<engine_ready, indexing_status, queries, graph_file, graph_resp, unit>>

\* _index_worker from its start to the first await
WorkerStart(w) ==
    /\ requests[w].pc = "scheduled"
    /\ LET nx == NextIteration(Reset(indexing_status, requests[w].paths), requests[w])
       IN  /\ indexing_status' = nx.status
           /\ requests' = [requests EXCEPT ![w] = nx.worker]
    /\ UNCHANGED <<engine_ready, queries, graph_file, graph_resp, unit>>

\* asyncio.to_thread(parse_document, path) completes, lines 66-70: with a
\* text, insert_document is called and the worker awaits rag.ainsert
ParseReturns(w, pr) ==
    /\ requests[w].pc = "parsing"
    /\ LET wr   == requests[w]
           path == wr.paths[wr.i]
           r    == parse_document(path, pr)
       IN  IF r.kind = "text" /\ engine_ready
           THEN /\ requests' = [requests EXCEPT ![w] =
                       [wr EXCEPT !.pc = "inserting",
                                  !.doc = Marked(r.text, RelPathOf(path, wr.vault_path)),
                                  !.ingested = @ \cup {path}]]
                /\ UNCHANGED indexing_status
           ELSE LET exc == IF r.kind = "raise" THEN ParseError
                           ELSE IF r.kind = "text" THEN EngineError
                           ELSE NoExc
                    nx  == EndIteration(indexing_status, wr, exc)
                IN  /\ indexing_status' = nx.status
                    /\ requests' = [requests EXCEPT ![w] = nx.worker]
    /\ UNCHANGED <<engine_ready, queries, graph_file, graph_resp, unit>>

\* rag.ainsert completes (ok) or raises, lines 70-74
InsertReturns(w, ok) ==
    /\ requests[w].pc = "inserting"
    /\ LET nx == EndIteration(indexing_status, [requests[w] EXCEPT !.doc = <<>>],
                              IF ok THEN NoExc ELSE EngineError)
       IN  /\ indexing_status' = nx.status
           /\ requests' = [requests EXCEPT ![w] = nx.worker]
    /\ UNCHANGED <<engine_ready, queries, graph_file, graph_resp, unit>>

-----------------------------------------------------------------------------
(* routes.py: POST /query, and RagEngine.query_with_sources *)

\* mutant: the running flag is not looked at
QueryRejected_NoRunningCheck(ready, st) == ~ready

\* query_rag, lines 88-91: the request is refused with 503
QueryRejected(ready, st) == ~ready \/ st.running

\* mutant: an empty answer is sent as it is
QueryResponse_EmptyAccepted(answer) == IF answer = "" THEN 200 ELSE 200

\* query_rag, lines 96-98
QueryResponse(answer) == IF answer = "" THEN 502 ELSE 200

\* query_rag up to the first await: the primary rag.aquery is issued
QueryRag(mode) ==
    /\ engine_ready
    /\ Load(requests, queries) + 2 <= MaxLoad
    /\ queries' = Append(queries,
           IF QueryRejected(engine_ready, indexing_status)
           THEN [mode |-> mode, pc |-> "done", resp |-> 503, calls |-> <<>>,
                 answer |-> "", sources |-> <<>>]
           ELSE [mode |-> mode, pc |-> "primary", resp |-> 0,
                 calls |-> <<[mode |-> mode, only_need_context |-> FALSE]>>,
                 answer |-> "", sources |-> <<>>])
    /\ UNCHANGED <<engine_ready, indexing_status, requests, graph_file, graph_resp, unit>>

\* the primary rag.aquery raises (502), or returns and the context-only
\* rag.aquery is issued in naive mode
PrimaryReturns(q, raises, answer) ==
    /\ queries[q].pc = "primary"
    /\ queries' = [queries EXCEPT ![q] =
           IF raises
           THEN [@ EXCEPT !.pc = "done", !.resp = 502]
           ELSE [@ EXCEPT !.pc = "context", !.answer = answer,
                          !.calls = Append(@, [mode |-> "naive",
                                               only_need_context |-> TRUE])]]
    /\ UNCHANGED <<engine_ready, indexing_status, requests, graph_file, graph_resp, unit>>

\* the context-only rag.aquery raises or returns; lines 112-117 of
\* rag_engine.py, then lines 96-98 of routes.py
ContextReturns(q, raises, context) ==
    /\ queries[q].pc = "context"
    /\ queries' = [queries EXCEPT ![q] =
           [@ EXCEPT !.pc = "done",
                     !.resp = QueryResponse(queries[q].answer),
                     !.answer = IF QueryResponse(queries[q].answer) = 200
                                THEN @ ELSE "",
                     !.sources = IF raises \/ QueryResponse(queries[q].answer) # 200
                                 THEN <<>>
                                 ELSE SourcesOf(context)]]
    /\ UNCHANGED <<engine_ready, indexing_status, requests, graph_file, graph_resp, unit>>

-----------------------------------------------------------------------------
(* routes.py: GET /graph *)

\* get_graph, line 112: the default of the limit parameter
DefaultLimit == 300

Limits == (-2..MaxLimit) \cup {DefaultLimit}

NodeIds == 1..MaxNodes

\* The parsed graph file (lines 146-166): the node elements in file order,
\* each with its id, and the edge elements with their endpoints.  Node ids
\* are distinct and opaque, so the k nodes of a file are named 1..k in file
\* order; an edge may name any id, declared or not.  The attributes (type,
\* description, keywords, weight) are copied through by the code and take no
\* part in the pruning; they are left out.
GraphFiles ==
    { [exists |-> TRUE,
       nodes |-> [k \in 1..n |-> [id |-> k, label |-> k]], edges |-> es] :
        n \in 0..MaxNodes,
        es \in UNION {[1..m -> [source : NodeIds, target : NodeIds]] : m \in 0..MaxEdges} }

\* xs[:n] of Python
PySlice(xs, n) ==
    IF n >= 0 THEN SubSeq(xs, 1, IF n < Len(xs) THEN n ELSE Len(xs))
    ELSE SubSeq(xs, 1, IF Len(xs) + n > 0 THEN Len(xs) + n ELSE 0)

\* mutant: an edge is counted at its source only
Degree_SourceOnly(edges, id) ==
    Cardinality({k \in 1..Len(edges) : edges[k].source = id})

\* get_graph, lines 170-173: degree.get(id, 0) once the edges are counted
Degree(edges, id) ==
    Cardinality({k \in 1..Len(edges) : edges[k].source = id})
    + Cardinality({k \in 1..Len(edges) : edges[k].target = id})

\* one node put into a list sorted by descending degree, behind every node
\* of the same degree
RECURSIVE InsertByDegree(_, _, _)
InsertByDegree(sorted, node, edges) ==
    IF sorted = <<>> THEN <<node>>
    ELSE IF Degree(edges, Head(sorted).id) >= Degree(edges, node.id)
         THEN <<Head(sorted)>> \o InsertByDegree(Tail(sorted), node, edges)
         ELSE <<node>> \o sorted

\* mutant: the nodes are not sorted before the cut
SortByDegree_FileOrder(nodes, edges) == nodes

\* get_graph, line 174: list.sort(key = degree, reverse = True), a stable sort
RECURSIVE SortByDegree(_, _)
SortByDegree(nodes, edges) ==
    IF nodes = <<>> THEN <<>>
    ELSE InsertByDegree(SortByDegree(SubSeq(nodes, 1, Len(nodes) - 1), edges),
                        nodes[Len(nodes)], edges)

\* get_graph, line 169: the cap applies
Capped(nodes, limit) == Len(nodes) > limit

\* get_graph, lines 175-177
FilterEdges(edges, nodes) ==
    LET kept == {nodes[k].id : k \in 1..Len(nodes)}
    IN  SelectSeq(edges, LAMBDA e : e.source \in kept /\ e.target \in kept)

\* get_graph, lines 179-183
GraphBody(nodes, edges) ==
    [nodes |-> nodes, edges |-> edges,
     stats |-> [entities |-> Len(nodes), relations |-> Len(edges)]]

\* get_graph, lines 119-183
get_graph(file, limit) ==
    IF ~file.exists THEN GraphBody(<<>>, <<>>)
    ELSE IF Capped(file.nodes, limit)
         THEN LET all_nodes == PySlice(SortByDegree(file.nodes, file.edges), limit)
              IN  GraphBody(all_nodes, FilterEdges(file.edges, all_nodes))
         ELSE GraphBody(file.nodes, file.edges)

\* no GET /graph has been answered yet
NoGraphResp == [served |-> FALSE, limit |-> 0, body |-> GraphBody(<<>>, <<>>)]

\* GET /graph?limit=...
GetGraph(limit) ==
    /\ engine_ready
    /\ graph_resp' = [served |-> TRUE, limit |-> limit,
                      body |-> get_graph(graph_file, limit)]
    /\ UNCHANGED <<engine_ready, indexing_status, requests, queries, graph_file, unit>>

\* The service is up, with whatever graph file earlier runs left in the
\* storage directory.
InitGraph ==
    /\ engine_ready = TRUE
    /\ indexing_status = [total |-> 0, indexed |-> 0, current_file |-> <<>>,
                          running |-> FALSE, errors |-> <<>>]
    /\ requests = <<>>
    /\ queries = <<>>
    /\ graph_file \in GraphFiles \cup {NoGraphFile}
    /\ graph_resp = NoGraphResp
    /\ unit = NoUnit

NextGraph == \E limit \in Limits : GetGraph(limit)

SpecGraph == InitGraph /\ [][NextGraph]_vars

-----------------------------------------------------------------------------
(* rag_engine.py: tagging and source extraction, called on their own *)

\* a context blob is a run of segments: markers written by insert_document
\* and stretches of other text
SegPaths == { <<"a">>, <<"b">>, <<"n","/","a">> }

SegTexts == { <<"x">>, <<"\n">>, <<"]">>, SOURCE_PREFIX }

Segments == [kind : {"marker"}, s : SegPaths] \cup [kind : {"text"}, s : SegTexts]

SegLists == UNION { [1..n -> Segments] : n \in 0..MaxSegs }

RECURSIVE Blob(_)
Blob(segs) ==
    IF segs = <<>> THEN <<>>
    ELSE (IF Head(segs).kind = "marker"
          THEN SOURCE_PREFIX \o Head(segs).s \o SOURCE_SUFFIX
          ELSE Head(segs).s) \o Blob(Tail(segs))

\* a document text and the path it is stored under; no path holds "]"
DocTexts == { <<>>, <<"H","i">>, <<"]">>, SOURCE_PREFIX \o <<"z","]">> }

DocPaths == { <<"a">>, <<"n","/","a">>, <<"[","a">>, <<"a","\n","b">> }

\* a context blob handed to the extraction of query_with_sources
InitExtract ==
    \E segs \in SegLists :
        unit = [fn |-> "extract", stage |-> "tagged", arg |-> [segs |-> segs],
                out |-> [marked |-> Blob(segs), sources |-> <<>>]]

\* a document about to be tagged by insert_document
InitRoundTrip ==
    \E text \in DocTexts, path \in DocPaths :
        unit = [fn |-> "roundtrip", stage |-> "new",
                arg |-> [text |-> text, path |-> path],
                out |-> [marked |-> <<>>, sources |-> <<>>]]

\* insert_document, line 85: the text that is handed to the engine
TagUnit ==
    /\ unit.fn = "roundtrip" /\ unit.stage = "new"
    /\ unit' = [unit EXCEPT !.stage = "tagged",
                            !.out.marked = Marked(unit.arg.text, unit.arg.path)]
    /\ UNCHANGED <<engine_ready, indexing_status, requests, queries, graph_file, graph_resp>>

\* query_with_sources, lines 112-113, on the blob
ExtractUnit ==
    /\ unit.fn \in {"extract", "roundtrip"} /\ unit.stage = "tagged"
    /\ unit' = [unit EXCEPT !.stage = "done",
                            !.out.sources = SourcesOf(unit.out.marked)]
    /\ UNCHANGED <<engine_ready, indexing_status, requests, queries, graph_file, graph_resp>>

InitSources ==
    /\ engine_ready = TRUE
    /\ indexing_status = [running |-> FALSE, total |-> 0, indexed |-> 0,
                          current_file |-> <<>>, errors |-> <<>>]
    /\ requests = <<>>
    /\ queries = <<>>
    /\ graph_file = NoGraphFile
    /\ graph_resp = NoGraphResp
    /\ (InitExtract \/ InitRoundTrip)

NextSources == TagUnit \/ ExtractUnit

SpecSources == InitSources /\ [][NextSources]_vars

-----------------------------------------------------------------------------
(* document_parser.py: the dispatcher and parse_image, called on their own *)

\* sub in s
Contains(s, sub) == \E k \in 1..Len(s) : At(s, k, sub)

\* str.strip()
RECURSIVE LStrip(_)
LStrip(s) == IF s # <<>> /\ Head(s) \in Whitespace THEN LStrip(Tail(s)) ELSE s

RECURSIVE RStrip(_)
RStrip(s) ==
    IF s # <<>> /\ s[Len(s)] \in Whitespace THEN RStrip(SubSeq(s, 1, Len(s) - 1)) ELSE s

Strip(s) == RStrip(LStrip(s))

\* the extensions PARSERS maps to parse_image, lines 77-83
ImageExts == { <<".","p","n","g">>, <<".","j","p","g">>, <<".","j","p","e","g">>,
               <<".","t","i","f","f">>, <<".","t","i","f">>, <<".","b","m","p">>,
               <<".","w","e","b","p">> }

IsImage(path) == \E ext \in {SplitExt(path)} : Lower(ext) \in ImageExts

\* exceptions: the name of the type and the message
TesseractNotFound == [name |-> <<"T","e","s","s","e","r","a","c","t","N","o","t","F","o","u","n","d","E","r","r","o","r">>,
                      msg  |-> <<"t","e","s","s","e","r","a","c","t"," ","i","s"," ","n","o","t"," ","i","n","s","t","a","l","l","e","d">>]
NoPytesseract     == [name |-> <<"M","o","d","u","l","e","N","o","t","F","o","u","n","d","E","r","r","o","r">>,
                      msg  |-> <<"N","o"," ","m","o","d","u","l","e"," ","n","a","m","e","d"," ","'","p","y","t","e","s","s","e","r","a","c","t","'">>]
BadImage          == [name |-> <<"U","n","i","d","e","n","t","i","f","i","e","d","I","m","a","g","e","E","r","r","o","r">>,
                      msg  |-> <<"c","a","n","n","o","t"," ","i","d","e","n","t","i","f","y"," ","i","m","a","g","e"," ","f","i","l","e">>]

\* what the library under an extractor does with the file: it returns a
\* text or raises
LibraryTexts == { <<>>, <<" ", "\n">>, <<"H","i">>, <<" ","H","i","\n">> }

LibraryResults ==
    {[kind |-> "text", text |-> t, exc |-> BadImage] : t \in LibraryTexts} \cup
    {[kind |-> "raise", text |-> <<>>, exc |-> e] :
        e \in {TesseractNotFound, NoPytesseract, BadImage}}

\* parse_image, line 64
OcrMissing(exc) ==
    \/ Contains(exc.name, <<"T","e","s","s","e","r","a","c","t","N","o","t","F","o","u","n","d">>)
    \/ Contains(Lower(exc.msg), <<"t","e","s","s","e","r","a","c","t">>)

\* mutant: every exception of the OCR stack is raised again
parse_image_Reraises(lib) ==
    IF lib.kind = "raise" THEN [kind |-> "raise", text |-> <<>>]
    ELSE [kind |-> "text", text |-> Strip(lib.text)]

\* parse_image, lines 55-66, given what pytesseract and PIL do
parse_image(lib) ==
    IF lib.kind = "raise"
    THEN IF OcrMissing(lib.exc) THEN [kind |-> "text", text |-> <<>>]
         ELSE [kind |-> "raise", text |-> <<>>]
    ELSE [kind |-> "text", text |-> Strip(lib.text)]

\* the extractor PARSERS has for the path, run on the file
Extractor(path, lib) ==
    IF IsImage(path) THEN parse_image(lib)
    ELSE [kind |-> lib.kind, text |-> lib.text]

DispatchPaths ==
    { <<"/","v","/","a",".","m","d">>, <<"/","v","/","A",".","M","D">>, <<"/","v","/","b",".","e","x","e">>,
      <<"/","v","/","c",".","p","n","g">>, <<"/","v","/","d",".","J","P","G">>, <<"/","v","/","e">>,
      <<"/","v","/",".","m","d">>, <<"/","v","/","f",".","t","a","r",".","P","d","f">> }

InitParse ==
    /\ engine_ready = TRUE
    /\ indexing_status = [running |-> FALSE, total |-> 0, indexed |-> 0,
                          current_file |-> <<>>, errors |-> <<>>]
    /\ requests = <<>>
    /\ queries = <<>>
    /\ graph_file = NoGraphFile
    /\ graph_resp = NoGraphResp
    /\ \E path \in DispatchPaths, lib \in LibraryResults :
          unit = [fn |-> "parse", stage |-> "new",
                  arg |-> [path |-> path, lib |-> lib],
                  out |-> [called |-> FALSE,
                           result |-> [kind |-> "none", text |-> <<>>],
                           failure |-> [error |-> NoExc, path |-> <<>>]]]

\* parse_document(path), lines 87-97
ParseUnit ==
    /\ unit.fn = "parse" /\ unit.stage = "new"
    /\ LET path == unit.arg.path
           r    == parse_document(path, Extractor(path, unit.arg.lib))
       IN  unit' = [unit EXCEPT
                       !.stage = "done",
                       !.out = [called  |-> Supported(path),
                                result  |-> r,
                                failure |-> IF r.kind = "raise"
                                            THEN [error |-> ParseError, path |-> path]
                                            ELSE [error |-> NoExc, path |-> <<>>]]]
    /\ UNCHANGED <<engine_ready, indexing_status, requests, queries, graph_file, graph_resp>>

NextParse == ParseUnit

SpecParse == InitParse /\ [][NextParse]_vars

-----------------------------------------------------------------------------
(* The service *)

Init ==
    /\ engine_ready = FALSE
    /\ indexing_status = [total |-> 0, indexed |-> 0, current_file |-> <<>>,
                          running |-> FALSE, errors |-> <<>>]
    /\ requests = <<>>
    /\ queries = <<>>
    /\ graph_file = NoGraphFile
    /\ graph_resp = NoGraphResp
    /\ unit = NoUnit

Next ==
    \/ Lifespan
    \/ \E n \in 0..(MaxLoad - 1 - Load(requests, queries)) :
           \E paths \in PathLists(n), vault_path \in VaultPaths :
               IndexDocuments(paths, vault_path)
    \/ \E w \in 1..Len(requests) : WorkerStart(w)
    \/ \E w \in 1..Len(requests), pr \in ParserResults : ParseReturns(w, pr)
    \/ \E w \in 1..Len(requests), ok \in BOOLEAN : InsertReturns(w, ok)
    \/ \E mode \in Modes : QueryRag(mode)
    \/ \E q \in 1..Len(queries), raises \in BOOLEAN, answer \in Answers :
           PrimaryReturns(q, raises, answer)
    \/ \E q \in 1..Len(queries), raises \in BOOLEAN, context \in Contexts :
           ContextReturns(q, raises, context)

Spec == Init /\ [][Next]_vars

\* one step of the worker of request w: the background task is started, or
\* the extraction or the ingest it awaits returns or raises
WorkerStep(w) ==
    /\ w \in 1..Len(requests)
    /\ \/ WorkerStart(w)
       \/ \E pr \in ParserResults : ParseReturns(w, pr)
       \/ \E ok \in BOOLEAN : InsertReturns(w, ok)

\* the event loop runs every background task, and every extraction and
\* every ingest call comes back
SpecFair == Spec /\ \A w \in 1..MaxLoad : WF_vars(WorkerStep(w))

-----------------------------------------------------------------------------
(* Properties *)

\* the worker of request w is between its start and its finish
Active(w) == requests[w].pc \in {"parsing", "inserting"}

\* the worker of request w finishes in this step
Finishes(w) == Active(w) /\ requests'[w].pc = "done"

\* query q has an engine call in flight
InFlight(q) == queries[q].pc \in {"primary", "context"}

\* C1: for every batch of N paths of which K raise, the status shows
\* indexed = N and K errors when the batch's worker finishes.
C1_BatchTotals ==
    [][\A w \in 1..Len(requests) :
          Finishes(w) =>
              /\ indexing_status'.indexed = Len(requests[w].paths)
              /\ Len(indexing_status'.errors) = requests'[w].raised]_vars

\* C2: in every observable state 0 <= indexed <= total.
C2_IndexedWithinTotal ==
    /\ 0 <= indexing_status.indexed
    /\ indexing_status.indexed <= indexing_status.total

\* C3: at most one indexing worker is between its start and its finish at
\* any time, so the per-path steps of two batches never interleave.
C3_OneDrainLoop ==
    \A v, w \in 1..Len(requests) : (Active(v) /\ Active(w)) => v = w

\* C4: no engine query call is in flight while an indexing worker is
\* between its start and its finish.
C4_NoQueryDuringIndexing ==
    ~ \E q \in 1..Len(queries), w \in 1..Len(requests) : InFlight(q) /\ Active(w)

\* C5: a query request handled while running is true is answered 503 and
\* makes no engine call, neither the primary nor the context-only one.
C5_QueryRejectedWhileRunning ==
    [][(Len(queries') = Len(queries) + 1 /\ indexing_status.running) =>
          /\ queries'[Len(queries')].resp = 503
          /\ queries'[Len(queries')].pc = "done"
          /\ queries'[Len(queries')].calls = <<>>]_vars

C5_Witness ==
    \E q \in 1..Len(queries) :
        /\ queries[q].resp = 503
        /\ queries[q].calls = <<>>
        /\ indexing_status.running

\* C6: a worker hands the paths of its request to parse_document one by
\* one, each once and in the order given; no failure ends the loop early,
\* so a worker that has ended has attempted every path.
C6_EveryPathInOrder ==
    \A w \in 1..Len(requests) :
        /\ requests[w].parsed = SubSeq(requests[w].paths, 1, Len(requests[w].parsed))
        /\ requests[w].pc \notin {"rejected", "scheduled"} =>
               requests[w].pc \in {"parsing", "inserting", "done"}
        /\ requests[w].pc \in {"parsing", "inserting"} =>
               requests[w].parsed # <<>>
        /\ requests[w].pc = "done" => requests[w].parsed = requests[w].paths

C6_Witness ==
    \E w \in 1..Len(requests) :
        /\ requests[w].pc = "done"
        /\ requests[w].paths = <<P_md, P_exe>>
        /\ requests[w].raised = 1
        /\ requests[w].parsed = <<P_md, P_exe>>

\* C7: an index request with an empty list is answered 400, gets no worker,
\* and leaves the whole status as it was.
C7_EmptyRequestRejected ==
    [][\A w \in 1..Len(requests') :
          requests'[w].paths = <<>> =>
              /\ requests'[w].resp = 400
              /\ requests'[w].pc = "rejected"
              /\ w > Len(requests) => indexing_status' = indexing_status]_vars

C7_Witness ==
    \E w \in 1..Len(requests) :
        /\ requests[w].paths = <<>>
        /\ requests[w].resp = 400
        /\ requests[w].pc = "rejected"
        /\ ~indexing_status.running

\* the worker of request w ends, in this step, the iteration for a path
\* whose extension has no registered extractor
HandlesUnsupported(w) ==
    /\ requests[w].pc = "parsing"
    /\ ~Supported(requests[w].paths[requests[w].i])
    /\ requests'[w] # requests[w]

\* the worker of request w is the only one there ever was, and it has
\* ended the batch [markdown file, unsupported file] without any exception
AloneReadableAndUnsupported(w) ==
    /\ Len(requests') = 1
    /\ requests'[w].pc = "done"
    /\ requests'[w].paths = <<P_md, P_exe>>
    /\ requests'[w].raised = 0

\* C8 as stated: an unsupported path is counted in indexed, adds exactly
\* one entry to errors and is not ingested; the batch [markdown, .exe] ends
\* with indexed = 2 and one error.
C8_UnsupportedAddsError ==
    [][\A w \in 1..Len(requests) :
          /\ HandlesUnsupported(w) =>
                 /\ indexing_status'.indexed = indexing_status.indexed + 1
                 /\ Len(indexing_status'.errors) = Len(indexing_status.errors) + 1
                 /\ requests'[w].pc # "inserting"
          /\ AloneReadableAndUnsupported(w) =>
                 /\ indexing_status'.indexed = 2
                 /\ Len(indexing_status'.errors) = 1]_vars

\* C8 as amended: an unsupported path is counted in indexed, adds no entry
\* to errors and is not ingested; every iteration a worker ends raises
\* indexed by one and, unless it raised, leaves errors alone, so the worker
\* of the batch [markdown, .exe] raises indexed by two and, without an
\* exception, appends no error (indexed = 2 and no error at its end when it
\* is the only batch); the markdown file is handed to the engine once, when
\* its text has come back, under the marker of its path relative to the
\* vault root.
C8_UnsupportedCountedSilently ==
    [][\A w \in 1..Len(requests) :
          /\ (Active(w) /\ requests'[w] # requests[w]
                 /\ requests'[w].pc # "inserting") =>
                 /\ indexing_status'.indexed = indexing_status.indexed + 1
                 /\ requests'[w].raised = requests[w].raised =>
                        indexing_status'.errors = indexing_status.errors
          /\ HandlesUnsupported(w) =>
                 /\ indexing_status'.indexed = indexing_status.indexed + 1
                 /\ indexing_status'.errors = indexing_status.errors
                 /\ requests'[w].pc # "inserting"
                 /\ requests'[w].doc = <<>>
          /\ AloneReadableAndUnsupported(w) =>
                 /\ indexing_status'.indexed = 2
                 /\ indexing_status'.errors = <<>>
          /\ (requests'[w].pc = "inserting" /\ requests'[w] # requests[w]) =>
                 /\ requests[w].pc = "parsing"
                 /\ requests'[w].i = requests[w].i
                 /\ (requests[w].paths[requests[w].i] = P_md
                        /\ requests[w].vault_path = <<"/","v">>) =>
                        requests'[w].doc =
                            <<"[","S","O","U","R","C","E","_","F","I","L","E",":"," ",
                              "a",".","m","d","]","\n","\n","H","i">>]_vars

C8_Witness ==
    /\ Len(requests) = 1
    /\ requests[1].pc = "done"
    /\ requests[1].paths = <<P_md, P_exe>>
    /\ requests[1].vault_path = <<"/","v">>
    /\ requests[1].raised = 0
    /\ indexing_status.indexed = 2
    /\ indexing_status.errors = <<>>

\* the ids of the nodes of a GET /graph response
ExportedIds == {graph_resp.body.nodes[k].id : k \in 1..Len(graph_resp.body.nodes)}

\* C9: for every graph file and every limit, no exported edge has a source
\* or a target that is absent from the exported nodes.
C9_NoDanglingEdge ==
    graph_resp.served =>
        \A k \in 1..Len(graph_resp.body.edges) :
            /\ graph_resp.body.edges[k].source \in ExportedIds
            /\ graph_resp.body.edges[k].target \in ExportedIds

\* C10: for every graph file and every integer limit, zero and negative
\* ones included, the export has at most limit nodes.
C10_NodeCountWithinLimit ==
    graph_resp.served => Len(graph_resp.body.nodes) <= graph_resp.limit

\* the ids of the nodes of the graph file
FileIds == {graph_file.nodes[k].id : k \in 1..Len(graph_file.nodes)}

\* the cap was active for the GET /graph that was answered last
CapActive ==
    /\ graph_resp.served
    /\ graph_file.exists
    /\ Len(graph_file.nodes) > graph_resp.limit

\* the number of edges of the file in which id is the source or the target
EdgesAt(id) ==
    Cardinality({k \in 1..Len(graph_file.edges) :
                    graph_file.edges[k].source = id \/ graph_file.edges[k].target = id})

\* the number of edge ends of the file that name id: an edge from a node to
\* itself counts twice
EndsAt(id) ==
    Cardinality({e \in (1..Len(graph_file.edges)) \X {"source", "target"} :
                    graph_file.edges[e[1]][e[2]] = id})

\* C11 as stated: with the cap active, a node of strictly greatest degree is
\* exported and no node of degree 0 is.
C11_TopKeptZeroDropped ==
    CapActive =>
        /\ \A n \in FileIds :
               (\A m \in FileIds \ {n} : EdgesAt(n) > EdgesAt(m)) => n \in ExportedIds
        /\ \A n \in ExportedIds : EdgesAt(n) # 0

\* C11 as amended: with the cap active and a limit of at least 1, a node of
\* strictly greatest degree is exported; with the cap active, a node of
\* degree 0 is exported only when every node of positive degree is.  The
\* degree counts edge ends (an edge from a node to itself counts twice).
C11_TopKeptZeroLast ==
    CapActive =>
        /\ graph_resp.limit >= 1 =>
               \A n \in FileIds :
                   (\A m \in FileIds \ {n} : EndsAt(n) > EndsAt(m)) => n \in ExportedIds
        /\ \A n \in ExportedIds :
               EndsAt(n) = 0 => \A m \in FileIds : EndsAt(m) > 0 => m \in ExportedIds

C11_Witness ==
    /\ CapActive
    /\ graph_resp.limit >= 1
    /\ \E n \in FileIds :
           /\ n # graph_file.nodes[1].id
           /\ \A m \in FileIds \ {n} : EndsAt(n) > EndsAt(m)
           /\ n \in ExportedIds
    /\ \E z \in FileIds : EndsAt(z) = 0 /\ z \notin ExportedIds

\* the paths of the marker segments of a blob, in order
MarkerPaths(segs) ==
    [k \in 1..Len(SelectSeq(segs, LAMBDA g : g.kind = "marker")) |->
        SelectSeq(segs, LAMBDA g : g.kind = "marker")[k].s]

\* the places of xs that hold a value no earlier place holds
FirstPlaces(xs) == {k \in 1..Len(xs) : \A j \in 1..(k - 1) : xs[j] # xs[k]}

\* ys lists the distinct values of xs once each, in order of first occurrence
FirstOccurrences(ys, xs) ==
    /\ Len(ys) = Cardinality(FirstPlaces(xs))
    /\ \A i \in 1..Len(ys) :
          \E k \in FirstPlaces(xs) :
              /\ ys[i] = xs[k]
              /\ Cardinality({j \in FirstPlaces(xs) : j < k}) = i - 1

\* every marker of the blob is one written around a path
OnlyWholeMarkers(segs) ==
    \A k \in 1..Len(segs) : segs[k].kind = "text" => segs[k].s # SOURCE_PREFIX

\* the blob holds the marker prefix nowhere
NoMarker(context) ==
    \A k \in 1..Len(context) : ~At(context, k, SOURCE_PREFIX)

\* the result of an extraction tagged again, one document for each source
RECURSIVE Retagged(_)
Retagged(sources) ==
    IF sources = <<>> THEN <<>>
    ELSE Marked(<<"x">>, Head(sources)) \o Retagged(Tail(sources))

Extracted == unit.fn = "extract" /\ unit.stage = "done"

\* C12: source extraction over a context blob returns the marked paths once
\* each, in order of first occurrence (markers a, b, a give [a, b]);
\* extracting from its own result tagged again gives the same sequence; a
\* blob without a marker gives the empty sequence.
C12_ExtractFirstOccurrences ==
    Extracted =>
        /\ OnlyWholeMarkers(unit.arg.segs) =>
               FirstOccurrences(unit.out.sources, MarkerPaths(unit.arg.segs))
        /\ SourcesOf(Retagged(unit.out.sources)) = unit.out.sources
        /\ NoMarker(unit.out.marked) => unit.out.sources = <<>>
        /\ MarkerPaths(unit.arg.segs) = << <<"a">>, <<"b">>, <<"a">> >>
             /\ OnlyWholeMarkers(unit.arg.segs)
             => unit.out.sources = << <<"a">>, <<"b">> >>

C12_Witness ==
    /\ Extracted
    /\ unit.arg.segs = <<[kind |-> "marker", s |-> <<"a">>], [kind |-> "marker", s |-> <<"b">>],
                         [kind |-> "text", s |-> <<"\n">>], [kind |-> "marker", s |-> <<"a">>]>>
    /\ unit.out.sources = << <<"a">>, <<"b">> >>

RoundTripped == unit.fn = "roundtrip" /\ unit.stage = "done"

\* C13: tagging a document text with a path that holds no "]" and then
\* extracting the sources of the tagged text gives exactly [path].
C13_RoundTrip ==
    RoundTripped => unit.out.sources = <<unit.arg.path>>

\* C14: for an accepted query a failure of the context-only call is not
\* fatal: the primary answer is returned with an empty source list.  The
\* query ends with 502 if and only if the primary call raises or returns an
\* empty answer.
C14_ContextFailureNotFatal ==
    [][\A q \in 1..Len(queries) :
          /\ \A raises \in BOOLEAN, answer \in Answers :
                PrimaryReturns(q, raises, answer) =>
                    /\ queries'[q].resp = 502 <=> raises
                    /\ ~raises => queries'[q].pc = "context" /\ queries'[q].resp = 0
          /\ \A raises \in BOOLEAN, context \in Contexts :
                ContextReturns(q, raises, context) =>
                    /\ queries'[q].pc = "done"
                    /\ queries'[q].resp = 502 <=> queries[q].answer = ""
                    /\ queries'[q].resp # 502 =>
                          /\ queries'[q].resp = 200
                          /\ queries'[q].answer = queries[q].answer
                          /\ raises => queries'[q].sources = <<>>]_vars

\* an answered query without sources next to one with sources
C14_Witness ==
    \E q, r \in 1..Len(queries) :
        /\ queries[q].pc = "done" /\ queries[q].resp = 200
        /\ queries[q].answer = "answer" /\ queries[q].sources = <<>>
        /\ Len(queries[q].calls) = 2
        /\ queries[r].pc = "done" /\ queries[r].resp = 200 /\ queries[r].sources # <<>>

\* C15: in every state, running is true if and only if some indexing worker
\* has started and not yet finished, and whenever running is false
\* current_file is the empty string; overlapping index requests included.
C15_RunningTracksWorkers ==
    /\ indexing_status.running <=> \E w \in 1..Len(requests) : Active(w)
    /\ ~indexing_status.running => indexing_status.current_file = <<>>

\* the worker of request w ends an iteration in this step
EndsIteration(w) ==
    /\ Active(w)
    /\ requests'[w] # requests[w]
    /\ ~(requests[w].pc = "parsing" /\ requests'[w].pc = "inserting")

\* C20: in every state, for any interleaving of index requests, the number
\* of recorded errors never exceeds indexed; an error entry is appended only
\* together with the increment of indexed for the same path, and the start
\* of a batch resets both.
C20_ErrorsWithinIndexed ==
    /\ [](Len(indexing_status.errors) <= indexing_status.indexed)
    /\ [][/\ Len(indexing_status'.errors) > Len(indexing_status.errors) =>
               /\ indexing_status'.errors =
                      Append(indexing_status.errors,
                             indexing_status'.errors[Len(indexing_status'.errors)])
               /\ indexing_status'.indexed = indexing_status.indexed + 1
               /\ \E w \in 1..Len(requests) :
                      /\ EndsIteration(w)
                      /\ indexing_status'.errors[Len(indexing_status'.errors)].file
                             = requests[w].paths[requests[w].i]
           /\ \A w \in 1..Len(requests) :
                 requests[w].pc = "scheduled" /\ requests'[w].pc # "scheduled" =>
                     indexing_status'.indexed = 0 /\ indexing_status'.errors = <<>>]_vars

\* two batches overlap, the later one has reset the counters and an error
\* of the earlier one is recorded after that reset
C20_Witness ==
    \E v, w \in 1..Len(requests) :
        /\ v # w /\ Active(v) /\ Active(w)
        /\ Len(indexing_status.errors) = 1
        /\ indexing_status.indexed = 1
        /\ indexing_status.total = Len(requests[w].paths)
        /\ requests[w].i = 1 /\ requests[w].raised = 0
        /\ requests[v].raised = 1

\* the worker of request w calls the engine's ingest in this step
IngestCalled(w) == requests[w].pc = "parsing" /\ requests'[w].pc = "inserting"

\* the path the worker of request w is at
PathAt(w) == requests[w].paths[requests[w].i]

\* what the ingest is called with, and when it is not called
IngestedAsMarked(w) ==
    /\ IngestCalled(w) =>
          /\ Supported(PathAt(w))
          /\ \E t \in ParserTexts :
                /\ t # <<>> /\ HasNonBlank(t)
                /\ ParseReturns(w, [kind |-> "text", text |-> t])
                /\ requests'[w].doc =
                       SOURCE_PREFIX
                       \o (IF requests[w].vault_path = <<>> THEN PathAt(w)
                           ELSE RelPath(PathAt(w), requests[w].vault_path))
                       \o SOURCE_SUFFIX \o <<"\n", "\n">> \o t
    /\ \A pr \in ParserResults :
          /\ requests[w].pc = "parsing" /\ requests'[w] # requests[w]
          /\ (~Supported(PathAt(w)) \/ pr.kind = "raise" \/ ~HasNonBlank(pr.text))
          /\ ParseReturns(w, pr)
          => ~IngestCalled(w)

\* C16 as stated: ingest is invoked for a path only when its extraction
\* returned non-empty text, at most once per path per batch, with the text
\* prefixed by the marker for the path relative to the vault root (the path
\* as given when the vault root is empty); a path whose extraction fails, is
\* unsupported or yields no text never reaches ingest.
C16_IngestOncePerPath ==
    [][\A w \in 1..Len(requests) :
          /\ IngestedAsMarked(w)
          /\ IngestCalled(w) => PathAt(w) \notin requests[w].ingested]_vars

\* C16 as amended: the same, with ingest invoked at most once for each entry
\* of the batch's path list; a path listed twice may be ingested twice.
C16_IngestOncePerEntry ==
    [][\A w \in 1..Len(requests) :
          /\ IngestedAsMarked(w)
          /\ requests'[w].i >= requests[w].i
          /\ requests[w].pc = "inserting" /\ requests'[w] # requests[w] =>
                \/ requests'[w].i = requests[w].i + 1 /\ requests'[w].pc = "parsing"
                \/ requests'[w].pc = "done"]_vars

\* a path listed twice is being ingested for the second time, relative to
\* the vault root
C16_Witness ==
    \E w \in 1..Len(requests) :
        /\ requests[w].pc = "inserting" /\ requests[w].i = 2
        /\ requests[w].paths = <<P_md, P_md>>
        /\ requests[w].vault_path = <<"/","v">>
        /\ requests[w].ingested = {P_md}
        /\ requests[w].doc = Marked(<<"H","i">>, <<"a",".","m","d">>)

\* the place of a node id in the graph file
FilePlace(id) == CHOOSE k \in 1..Len(graph_file.nodes) : graph_file.nodes[k].id = id

\* how many nodes of the file stand before node n once the file's list is
\* put in descending order of degree, equal degrees in file order; the
\* degree of a node is the number of edges that name it
RankByEdges(n) ==
    Cardinality({m \in FileIds :
        \/ EdgesAt(m) > EdgesAt(n)
        \/ EdgesAt(m) = EdgesAt(n) /\ FilePlace(m) < FilePlace(n)})

\* the same, the degree of a node being the number of edge ends at it
RankByEnds(n) ==
    Cardinality({m \in FileIds :
        \/ EndsAt(m) > EndsAt(n)
        \/ EndsAt(m) = EndsAt(n) /\ FilePlace(m) < FilePlace(n)})

\* C17 as stated: when the node count exceeds the limit, the exported nodes
\* are exactly the first limit nodes of the node list sorted by descending
\* degree, ties in file order, the degree of a node being the number of
\* edges in which it is source or target; no pruned node has a strictly
\* higher degree than a retained node.
C17_FirstLimitByEdges ==
    CapActive =>
        /\ ExportedIds = {n \in FileIds : RankByEdges(n) < graph_resp.limit}
        /\ \A n \in ExportedIds, m \in FileIds \ ExportedIds : EdgesAt(m) <= EdgesAt(n)

\* C17 as amended: the exported nodes are a leading run of that sorted
\* list, exactly its first limit nodes when limit is not negative, the
\* degree of a node being the number of edge ends at it (an edge from a node
\* to itself counts twice); no pruned node has a strictly higher degree
\* than a retained node.
C17_LeadingRunByEnds ==
    CapActive =>
        /\ \A r \in 1..Len(graph_resp.body.nodes) :
              /\ graph_resp.body.nodes[r].id \in FileIds
              /\ RankByEnds(graph_resp.body.nodes[r].id) = r - 1
        /\ graph_resp.limit >= 0 => Len(graph_resp.body.nodes) = graph_resp.limit
        /\ \A n \in ExportedIds, m \in FileIds \ ExportedIds : EndsAt(m) <= EndsAt(n)

\* the cap keeps the one node that has an edge to itself and prunes two
\* nodes that share an edge
C17_Witness ==
    /\ CapActive /\ graph_resp.limit = 1
    /\ Len(graph_file.nodes) = 3
    /\ \E n \in FileIds :
          /\ ExportedIds = {n}
          /\ EndsAt(n) = 2 /\ EdgesAt(n) = 1 /\ FilePlace(n) > 1
          /\ \A m \in FileIds \ {n} : EndsAt(m) = 1

\* no worker has started without having finished
NoneActive == \A w \in 1..Len(requests) : ~Active(w)

\* C18: if every extraction and every ingest call returns or raises, every
\* accepted batch terminates: its worker is started and every started
\* worker finishes, and once no worker is active the status shows
\* running = false.
C18_BatchTerminates ==
    /\ \A w \in 1..MaxLoad :
          (w \in 1..Len(requests) /\ requests[w].pc \in {"scheduled", "parsing", "inserting"})
              ~> (w \in 1..Len(requests) /\ requests[w].pc = "done")
    /\ NoneActive ~> ~indexing_status.running

\* a batch of two paths has run to its end, through an ingest and a path
\* without extractor, and the status is idle
C18_Witness ==
    /\ NoneActive /\ ~indexing_status.running
    /\ indexing_status.indexed = 2 /\ indexing_status.total = 2
    /\ \E w \in 1..Len(requests) :
          /\ requests[w].pc = "done" /\ requests[w].paths = <<P_md, P_exe>>
          /\ requests[w].ingested = {P_md}

Dispatched == unit.fn = "parse" /\ unit.stage = "done"

\* the extension of the path is, letter case aside, one with an extractor
Registered(path) ==
    \E e \in PARSERS :
        /\ Len(e) = Len(SplitExt(path))
        /\ \A k \in 1..Len(e) : LowerChar(SplitExt(path)[k]) = e[k]

\* the OCR backend is not installed
BackendMissing(lib) == lib.kind = "raise" /\ lib.exc \in {TesseractNotFound, NoPytesseract}

\* C19: the dispatcher has three outcomes only.  For an extension without a
\* registered extractor, letter case aside, it returns the absent result and
\* calls no extractor; when the extractor raises it raises one wrapped
\* failure naming the path and returns nothing; otherwise it returns the
\* text if that is not blank and the absent result if it is.  An image whose
\* OCR backend is missing gives the absent result, not a failure.
C19_DispatcherOutcomes ==
    Dispatched =>
        LET path == unit.arg.path
            lib  == unit.arg.lib
            out  == unit.out
            ex   == Extractor(path, lib)
        IN  /\ out.result.kind \in {"none", "text", "raise"}
            /\ ~Registered(path) =>
                  out.result.kind = "none" /\ ~out.called
            /\ Registered(path) => out.called
            /\ Registered(path) /\ ex.kind = "raise" =>
                  /\ out.result.kind = "raise"
                  /\ out.failure = [error |-> ParseError, path |-> path]
            /\ Registered(path) /\ ex.kind = "text" =>
                  IF \E k \in 1..Len(ex.text) : ex.text[k] \notin Whitespace
                  THEN out.result = [kind |-> "text", text |-> ex.text]
                  ELSE out.result.kind = "none"
            /\ out.result.kind # "raise" => out.failure.error = NoExc
            /\ Registered(path) /\ ~IsImage(path) => ex = [kind |-> lib.kind, text |-> lib.text]
            /\ Registered(path) /\ IsImage(path) /\ BackendMissing(lib) =>
                  out.result.kind = "none"
            /\ Registered(path) /\ IsImage(path) /\ lib.kind = "raise" /\ ~BackendMissing(lib) =>
                  out.result.kind = "raise"

\* an image with an upper-case extension whose OCR backend is missing
C19_Witness ==
    /\ Dispatched
    /\ unit.arg.path = <<"/","v","/","d",".","J","P","G">>
    /\ unit.arg.lib.kind = "raise" /\ unit.arg.lib.exc = NoPytesseract
    /\ unit.out.called
    /\ unit.out.result.kind = "none"

=============================================================================
